---- MODULE Spec2Model ----
(***************************************************************************)
(* The worker pool of src/src/sos/workers.py: the WorkerManager            *)
(* (dispatcher) and the SoS_Worker dispatch loop.                          *)
(*                                                                         *)
(* Spec    : the manager alone, driven by any sequence of calls of its     *)
(*           public operations on ports of a small set, with a backend     *)
(*           socket that records what is sent on it.                       *)
(* SysSpec : the manager together with its worker processes; a readiness   *)
(*           signal of a worker is answered by process_request,            *)
(*           check_workers or kill_all.                                    *)
(* CtlSpec : the receive loop of the signature controller thread of        *)
(*           src/src/sos/controller.py. The controller and the pool share  *)
(*           no state: the other specifications leave it at its start.     *)
(***************************************************************************)
EXTENDS Integers, Sequences, FiniteSets, TLC

\* ---- bounds of the model ------------------------------------------------
MaxWorkersCap == 2      \* max_workers is configured in 0..MaxWorkersCap
NumPorts == 2           \* ports the manager is called with in Spec
MaxRequests == 3        \* add_request is called at most this often
MaxDepth == 1           \* deepest nesting level a worker reaches in SysSpec
MaxClients == 2         \* connections to req_socket at a time in CtlSpec

\* ---- program constants --------------------------------------------------
None == 0               \* Python's None: no port, no message
IdleLimit == 5          \* seconds: liveness period and idle period

MaxStarted == IF MaxWorkersCap < 1 THEN 1 ELSE MaxWorkersCap   \* worker processes ever created
WorkerIds == 1..MaxStarted
PortsPerWorker == MaxDepth + 1
Ports == 1..NumPorts

VARIABLES
    max_workers,        \* self._max_workers
    workers,            \* self._workers: the worker processes, in start order
    num_workers,        \* self._num_workers
    n_requested,        \* self._n_requested
    n_processed,        \* self._n_processed
    alive_age,          \* time.time() - self._worker_alive_time, seconds
    avail_age,          \* time.time() - self._last_avail_time, seconds
    substep_requests,   \* self._substep_requests: list of messages
    step_requests,      \* self._step_requests: dict port -> message
    available_ports,    \* self._available_ports
    claimed_ports,      \* self._claimed_ports
    mpc,                \* where the manager is: "idle", in the loop of
                        \* "check_workers" or of "kill_all", or "stopped"
                        \* once kill_all has returned
    reply,              \* what the last manager step sent on the backend socket
    ret,                \* what the last manager step returned (a port or None)
    raised,             \* the exception the last manager step raised, or "none"
    wpc,                \* per worker process: where it is
    widx,               \* per worker: self._stack_idx
    wnports,            \* per worker: len(self._master_ports)
    wjobs,              \* per worker: the suspended step/workflow jobs, outermost first
    signal,             \* per worker: the readiness signal not yet answered (a port) or None
    sentinels,          \* per worker: termination sentinels received so far
    cpc,                \* Controller.run: where the thread is in its loop
    socks,              \* Controller.run: the sockets the last poll found readable
    num_clients,        \* self._num_clients
    req_owed,           \* req_socket (REP) has received a request it has not answered
    creply,             \* what the last step sent on req_socket, or "none"
    sig_op,             \* the last call made on a signature store, or "none"
    clog                \* the warning the last step logged, or "none"

mvars == <<max_workers, workers, num_workers, n_requested, n_processed,
           alive_age, avail_age, substep_requests, step_requests,
           available_ports, claimed_ports, mpc, reply, ret, raised>>
wvars == <<wpc, widx, wnports, wjobs, signal, sentinels>>
cvars == <<cpc, socks, num_clients, req_owed, creply, sig_op, clog>>
vars == <<mvars, wvars, cvars>>

\* ---- messages on the backend socket --------------------------------------
NoReply == [kind |-> "nothing", port |-> None, msg |-> None]
Empty(port) == [kind |-> "empty", port |-> port, msg |-> None]
Sentinel(port) == [kind |-> "sentinel", port |-> port, msg |-> None]
StepMsg(port, msg) == [kind |-> "step", port |-> port, msg |-> msg]
SubstepMsg(port, msg) == [kind |-> "substep", port |-> port, msg |-> msg]

\* ---- time ---------------------------------------------------------------
\* The code only asks whether an age is above, or below, IdleLimit, and only
\* check_workers asks. Time advances in steps of TickLen seconds, the first
\* length above IdleLimit, and an age is kept up to that value: it is 0 (the
\* event has just happened) or above IdleLimit.
TickLen == IdleLimit + 1
Older(age) == IF age > IdleLimit THEN age ELSE age + TickLen

\* worker.is_alive(), for a worker process at pc
is_alive(pc) == pc \notin {"unborn", "exited", "killed"}

\* ---- Python containers ----------------------------------------------------
\* list.insert(0, x)
list_insert_front(s, x) == <<x>> \o s
\* a pop that takes the first element instead of the last
list_pop_value_first(s) == s[1]
\* the element list.pop() returns: the last one
list_pop_value(s) == s[Len(s)]
\* the list after list.pop()
list_pop_rest(s) == SubSeq(s, 1, Len(s) - 1)
\* a pop that leaves the element in the set
set_pop_rest_keeps(s, x) == s
\* the set after set.pop() has returned x
set_pop_rest(s, x) == s \ {x}
\* an assignment that keeps the value already stored under the key
dict_set_keeps(d, k, v) == [q \in DOMAIN d \cup {k} |-> IF q \in DOMAIN d THEN d[q] ELSE v]
\* d[k] = v
dict_set(d, k, v) == [q \in DOMAIN d \cup {k} |-> IF q = k THEN v ELSE d[q]]
\* a lookup that leaves the entry in the dict
dict_pop_rest_keeps(d, k) == d
\* the dict after d.pop(k)
dict_pop_rest(d, k) == [q \in DOMAIN d \ {k} |-> d[q]]

\* ---- WorkerManager ----------------------------------------------------------
\* The next SoS_Worker object created is the first one not yet created.
NextWorker == Cardinality({w \in WorkerIds : wpc[w] # "unborn"}) + 1

\* a start that respects the worker cap
start_capped ==
    IF num_workers < max_workers
    THEN /\ NextWorker \in WorkerIds
         /\ workers' = Append(workers, NextWorker)
         /\ num_workers' = num_workers + 1
         /\ wpc' = [wpc EXCEPT ![NextWorker] = "ready"]
    ELSE UNCHANGED <<workers, num_workers, wpc>>

\* WorkerManager.start
start ==
    /\ NextWorker \in WorkerIds
    /\ workers' = Append(workers, NextWorker)
    /\ num_workers' = num_workers + 1
    /\ wpc' = [wpc EXCEPT ![NextWorker] = "ready"]

start_if(cond) ==
    IF cond THEN start ELSE UNCHANGED <<workers, num_workers, wpc>>

\* a condition of add_request that does not wait for the first processed request
add_request_starts_eager == available_ports = {} /\ num_workers < max_workers
\* the condition of add_request under which it starts a worker
add_request_starts ==
    n_processed > 0 /\ available_ports = {} /\ num_workers < max_workers

\* worker_available without the test of the worker cap
worker_available_starts_uncapped == TRUE
\* the condition of worker_available under which it starts a worker
worker_available_starts == num_workers < max_workers

\* WorkerManager.__init__ with max_workers = m
ManagerInit(m) ==
    /\ max_workers = m
    /\ workers = <<1>>
    /\ num_workers = 1
    /\ n_requested = 0
    /\ n_processed = 0
    /\ alive_age = 0
    /\ avail_age = 0
    /\ substep_requests = <<>>
    /\ step_requests = [q \in {} |-> None]
    /\ available_ports = {}
    /\ claimed_ports = {}
    /\ mpc = "idle"
    /\ reply = NoReply
    /\ ret = None
    /\ raised = "none"

\* the worker processes right after __init__: the first one has been started
WorkersInit ==
    /\ wpc = [w \in WorkerIds |-> IF w = 1 THEN "ready" ELSE "unborn"]
    /\ widx = [w \in WorkerIds |-> 0]
    /\ wnports = [w \in WorkerIds |-> 1]
    /\ wjobs = [w \in WorkerIds |-> <<>>]
    /\ signal = [w \in WorkerIds |-> None]
    /\ sentinels = [w \in WorkerIds |-> 0]

\* an add_request that releases the claim of the port it is given
add_request_releases(port) ==
    /\ mpc = "idle"
    /\ n_requested < MaxRequests
    /\ LET msg == n_requested + 1 IN
         IF port = None
         THEN /\ substep_requests' = list_insert_front(substep_requests, msg)
              /\ UNCHANGED step_requests
         ELSE /\ step_requests' = dict_set(step_requests, port, msg)
              /\ UNCHANGED substep_requests
    /\ n_requested' = n_requested + 1
    /\ start_if(add_request_starts)
    /\ reply' = NoReply
    /\ ret' = None
    /\ raised' = "none"
    /\ claimed_ports' = claimed_ports \ {port}
    /\ UNCHANGED <<max_workers, n_processed, alive_age, avail_age,
                   available_ports, mpc>>
    /\ UNCHANGED <<widx, wnports, wjobs, signal, sentinels>>

\* WorkerManager.add_request(port, msg); the message is the n-th request
add_request(port) ==
    /\ mpc = "idle"
    /\ n_requested < MaxRequests
    /\ LET msg == n_requested + 1 IN
         IF port = None
         THEN /\ substep_requests' = list_insert_front(substep_requests, msg)
              /\ UNCHANGED step_requests
         ELSE /\ step_requests' = dict_set(step_requests, port, msg)
              /\ UNCHANGED substep_requests
    /\ n_requested' = n_requested + 1
    /\ start_if(add_request_starts)
    /\ reply' = NoReply
    /\ ret' = None
    /\ raised' = "none"
    /\ UNCHANGED <<max_workers, n_processed, alive_age, avail_age,
                   available_ports, claimed_ports, mpc>>
    /\ UNCHANGED <<widx, wnports, wjobs, signal, sentinels>>

\* WorkerManager.worker_available
worker_available ==
    /\ mpc = "idle"
    /\ IF available_ports # {}
       THEN /\ \E claimed \in available_ports :
                 /\ available_ports' = set_pop_rest(available_ports, claimed)
                 /\ claimed_ports' = claimed_ports \cup {claimed}
                 /\ ret' = claimed
            /\ UNCHANGED <<workers, num_workers, wpc>>
       ELSE /\ start_if(worker_available_starts)
            /\ ret' = None
            /\ UNCHANGED <<available_ports, claimed_ports>>
    /\ reply' = NoReply
    /\ raised' = "none"
    /\ UNCHANGED <<max_workers, n_requested, n_processed, alive_age, avail_age,
                   substep_requests, step_requests, mpc>>
    /\ UNCHANGED <<widx, wnports, wjobs, signal, sentinels>>

\* process_request, first branch: a step/workflow request is pending for the
\* port. set.remove raises KeyError when the port is not claimed, after the
\* request has been sent.
deliver_step(port) ==
    /\ reply' = StepMsg(port, step_requests[port])
    /\ step_requests' = dict_pop_rest(step_requests, port)
    /\ avail_age' = 0
    /\ n_processed' = n_processed + 1
    /\ IF port \in claimed_ports
       THEN /\ claimed_ports' = claimed_ports \ {port}
            /\ raised' = "none"
       ELSE /\ UNCHANGED claimed_ports
            /\ raised' = "KeyError"
    /\ UNCHANGED <<substep_requests, available_ports>>

\* a second branch that gives the claim up
keep_waiting_releases(port) ==
    /\ reply' = Empty(port)
    /\ raised' = "none"
    /\ claimed_ports' = claimed_ports \ {port}
    /\ available_ports' = available_ports \cup {port}
    /\ UNCHANGED <<step_requests, substep_requests, avail_age, n_processed>>

\* a second branch that sends nothing
keep_waiting_silent(port) ==
    /\ reply' = NoReply
    /\ raised' = "none"
    /\ UNCHANGED <<step_requests, substep_requests, avail_age, n_processed,
                   available_ports, claimed_ports>>

\* process_request, second branch: the port is claimed and its request has
\* not arrived yet
keep_waiting(port) ==
    /\ reply' = Empty(port)
    /\ raised' = "none"
    /\ UNCHANGED <<step_requests, substep_requests, avail_age, n_processed,
                   available_ports, claimed_ports>>

\* a third branch that leaves the port in available_ports
deliver_substep_keeps_available(port) ==
    /\ reply' = SubstepMsg(port, list_pop_value(substep_requests))
    /\ substep_requests' = list_pop_rest(substep_requests)
    /\ avail_age' = 0
    /\ n_processed' = n_processed + 1
    /\ raised' = "none"
    /\ UNCHANGED <<step_requests, claimed_ports, available_ports>>

\* process_request, third branch: the port is free for a substep
deliver_substep(port) ==
    /\ reply' = SubstepMsg(port, list_pop_value(substep_requests))
    /\ substep_requests' = list_pop_rest(substep_requests)
    /\ avail_age' = 0
    /\ n_processed' = n_processed + 1
    /\ available_ports' = available_ports \ {port}
    /\ raised' = "none"
    /\ UNCHANGED <<step_requests, claimed_ports>>

\* a last branch that answers without recording the port
mark_available_forgets(port) ==
    /\ reply' = Empty(port)
    /\ raised' = "none"
    /\ UNCHANGED <<step_requests, substep_requests, avail_age, n_processed,
                   available_ports, claimed_ports>>

\* process_request, last branch: nothing to do, the port becomes available
mark_available(port) ==
    /\ available_ports' = available_ports \cup {port}
    /\ reply' = Empty(port)
    /\ raised' = "none"
    /\ UNCHANGED <<step_requests, substep_requests, avail_age, n_processed,
                   claimed_ports>>

\* a process_request that serves a queued substep before a pending request
process_request_prefers_substep(port) ==
    /\ mpc = "idle"
    /\ IF substep_requests # <<>> /\ port \notin claimed_ports THEN deliver_substep(port)
       ELSE IF port \in DOMAIN step_requests THEN deliver_step(port)
       ELSE IF port \in claimed_ports THEN keep_waiting(port)
       ELSE mark_available(port)
    /\ ret' = None
    /\ UNCHANGED <<max_workers, workers, num_workers, n_requested, alive_age,
                   mpc>>

\* a process_request that looks for a substep before it tests the claim
process_request_substep_first(port) ==
    /\ mpc = "idle"
    /\ IF port \in DOMAIN step_requests THEN deliver_step(port)
       ELSE IF substep_requests # <<>> THEN deliver_substep(port)
       ELSE IF port \in claimed_ports THEN keep_waiting(port)
       ELSE mark_available(port)
    /\ ret' = None
    /\ UNCHANGED <<max_workers, workers, num_workers, n_requested, alive_age,
                   mpc>>

\* WorkerManager.process_request(port): the manager's side
process_request(port) ==
    /\ mpc = "idle"
    /\ IF port \in DOMAIN step_requests THEN deliver_step(port)
       ELSE IF port \in claimed_ports THEN keep_waiting(port)
       ELSE IF substep_requests # <<>> THEN deliver_substep(port)
       ELSE mark_available(port)
    /\ ret' = None
    /\ UNCHANGED <<max_workers, workers, num_workers, n_requested, alive_age,
                   mpc>>

\* a liveness check that reports every dead worker of the list
worker_killed_any_dead(alive) == Len(alive) < Len(workers)
\* the liveness check of check_workers, on the pruned list: a worker is missing
worker_killed(alive) == Len(alive) < num_workers

\* an idle test that never finds a recent dispatch
recently_dispatched_never == FALSE
\* the idle test of check_workers: a request was processed in the last
\* IdleLimit seconds
recently_dispatched == avail_age < IdleLimit

\* WorkerManager.check_workers up to its while loop: the liveness check
\* (rule A) and the test for an idle period
check_workers_begin ==
    /\ mpc = "idle"
    /\ LET due == alive_age > IdleLimit
           now_alive(w) == is_alive(wpc'[w])
           alive == SelectSeq(workers, now_alive)
       IN /\ alive_age' = IF due THEN 0 ELSE alive_age
          /\ workers' = IF due THEN alive ELSE workers
          /\ IF due /\ worker_killed(alive)
             THEN /\ raised' = "ProcessKilled"
                  /\ mpc' = "idle"
             ELSE /\ raised' = "none"
                  /\ mpc' = IF recently_dispatched THEN "idle" ELSE "check_workers"
    /\ reply' = NoReply
    /\ ret' = None
    /\ UNCHANGED <<max_workers, num_workers, n_requested, n_processed, avail_age,
                   substep_requests, step_requests, available_ports,
                   claimed_ports>>

\* an iteration of check_workers that does not keep one worker
check_workers_recv_no_floor(port) ==
    /\ mpc = "check_workers"
    /\ IF port \in claimed_ports
       THEN /\ reply' = Empty(port)
            /\ UNCHANGED <<available_ports, num_workers>>
       ELSE /\ available_ports' = available_ports \ {port}
            /\ reply' = Sentinel(port)
            /\ num_workers' = num_workers - 1
    /\ ret' = None
    /\ raised' = "none"
    /\ UNCHANGED <<max_workers, workers, n_requested, n_processed, alive_age,
                   avail_age, substep_requests, step_requests, claimed_ports,
                   mpc>>

\* an iteration of check_workers that retires the worker of a claimed port too
check_workers_recv_ignores_claim(port) ==
    /\ mpc = "check_workers"
    /\ num_workers > 1
    /\ available_ports' = available_ports \ {port}
    /\ reply' = Sentinel(port)
    /\ num_workers' = num_workers - 1
    /\ ret' = None
    /\ raised' = "none"
    /\ UNCHANGED <<max_workers, workers, n_requested, n_processed, alive_age,
                   avail_age, substep_requests, step_requests, claimed_ports,
                   mpc>>

\* one iteration of the while loop of check_workers: the poll found the
\* readiness signal `port`
check_workers_recv(port) ==
    /\ mpc = "check_workers"
    /\ num_workers > 1
    /\ IF port \in claimed_ports
       THEN /\ reply' = Empty(port)
            /\ UNCHANGED <<available_ports, num_workers>>
       ELSE /\ available_ports' = available_ports \ {port}
            /\ reply' = Sentinel(port)
            /\ num_workers' = num_workers - 1
    /\ ret' = None
    /\ raised' = "none"
    /\ UNCHANGED <<max_workers, workers, n_requested, n_processed, alive_age,
                   avail_age, substep_requests, step_requests, claimed_ports,
                   mpc>>

\* the while loop of check_workers ends: one worker is left, or the poll
\* found no signal (polled = FALSE)
check_workers_return(polled) ==
    /\ mpc = "check_workers"
    /\ num_workers <= 1 \/ ~polled
    /\ mpc' = "idle"
    /\ reply' = NoReply
    /\ ret' = None
    /\ raised' = "none"
    /\ UNCHANGED <<max_workers, workers, num_workers, n_requested, n_processed,
                   alive_age, avail_age, substep_requests, step_requests,
                   available_ports, claimed_ports>>

\* WorkerManager.kill_all is entered
kill_all_begin ==
    /\ mpc = "idle"
    /\ mpc' = "kill_all"
    /\ reply' = NoReply
    /\ ret' = None
    /\ raised' = "none"
    /\ UNCHANGED <<max_workers, workers, num_workers, n_requested, n_processed,
                   alive_age, avail_age, substep_requests, step_requests,
                   available_ports, claimed_ports>>

\* an iteration of kill_all that does not look at num_workers
kill_all_recv_unguarded(port) ==
    /\ mpc = "kill_all"
    /\ reply' = Sentinel(port)
    /\ num_workers' = num_workers - 1
    /\ ret' = None
    /\ raised' = "none"
    /\ UNCHANGED <<max_workers, workers, n_requested, n_processed, alive_age,
                   avail_age, substep_requests, step_requests, available_ports,
                   claimed_ports, mpc>>

\* one iteration of the while loop of kill_all
kill_all_recv(port) ==
    /\ mpc = "kill_all"
    /\ num_workers > 0
    /\ reply' = Sentinel(port)
    /\ num_workers' = num_workers - 1
    /\ ret' = None
    /\ raised' = "none"
    /\ UNCHANGED <<max_workers, workers, n_requested, n_processed, alive_age,
                   avail_age, substep_requests, step_requests, available_ports,
                   claimed_ports, mpc>>

\* the while loop of kill_all ends; kill_all is the manager's last call
kill_all_return(polled) ==
    /\ mpc = "kill_all"
    /\ num_workers <= 0 \/ ~polled
    /\ mpc' = "stopped"
    /\ reply' = NoReply
    /\ ret' = None
    /\ raised' = "none"
    /\ UNCHANGED <<max_workers, workers, num_workers, n_requested, n_processed,
                   alive_age, avail_age, substep_requests, step_requests,
                   available_ports, claimed_ports>>

\* ---- Controller (src/src/sos/controller.py) ----------------------------------
\* the sockets registered with the poller of Controller.run
Sockets == {"push", "req", "monitor"}
\* msg[0] of a message on push_socket
PushTags == {"workflow", "target", "step", "other"}
\* <<msg[0], msg[1]>> of a message on req_socket
ReqMsgs == {<<"workflow", "clear">>, <<"workflow", "placeholders">>,
            <<"workflow", "other">>, <<"target", "get">>, <<"target", "other">>,
            <<"step", "get">>, <<"step", "other">>, <<"nprocs", "">>,
            <<"other", "">>}
\* evt['event'] of a message on monitor_socket
MonitorEvents == {"accepted", "disconnected", "other"}

\* Controller.__init__, and run up to its loop
ControllerInit ==
    /\ cpc = "poll"
    /\ socks = {}
    /\ num_clients = 0
    /\ req_owed = FALSE
    /\ creply = "none"
    /\ sig_op = "none"
    /\ clog = "none"

\* The three "if ... in socks" of one iteration are reached in this order;
\* the thread goes to the first one, of those in later, whose socket the poll
\* found readable, and to the next poll if there is none.
next_stage(later, found) ==
    IF "push" \in later \cap found THEN "push"
    ELSE IF "req" \in later \cap found THEN "req"
    ELSE IF "monitor" \in later \cap found THEN "monitor"
    ELSE "poll"

\* handlers that end the loop on every exception
ctl_except_fail_closed(exc) ==
    /\ cpc' = "stopped"
    /\ clog' = "none"

\* the except clauses of the loop: an Exception is logged as a warning and
\* the loop goes on, a KeyboardInterrupt breaks the loop
ctl_except(exc) ==
    IF exc = "KeyboardInterrupt"
    THEN /\ cpc' = "stopped"
         /\ clog' = "none"
    ELSE /\ cpc' = "poll"
         /\ clog' = "Signature handling warning"

\* socks = dict(poller.poll()): the poll returns when a socket is readable.
\* A REP socket that owes a reply does not become readable.
ctl_poll(found) ==
    /\ cpc = "poll"
    /\ found # {}
    /\ "req" \in found => ~req_owed
    /\ socks' = found
    /\ cpc' = next_stage(Sockets, found)
    /\ creply' = "none"
    /\ clog' = "none"
    /\ UNCHANGED <<num_clients, req_owed, sig_op>>

\* the message of push_socket is handled
ctl_push(tag) ==
    /\ cpc = "push"
    /\ sig_op' = IF tag = "workflow" THEN "workflow_signatures.write"
                 ELSE IF tag = "target" THEN "target_signatures.set"
                 ELSE IF tag = "step" THEN "step_signatures.set"
                 ELSE sig_op
    /\ clog' = IF tag = "other" THEN "Unknown message passed" ELSE "none"
    /\ cpc' = next_stage({"req", "monitor"}, socks)
    /\ creply' = "none"
    /\ UNCHANGED <<socks, num_clients, req_owed>>

\* what the handler of req_socket does with msg: the reply it sends, "unknown"
\* when it logs a warning and sends nothing, "raise" for the RuntimeError
req_answer(msg) ==
    IF msg[1] = "workflow"
    THEN IF msg[2] = "clear" THEN "ok"
         ELSE IF msg[2] = "placeholders" THEN "placeholders"
         ELSE "unknown"
    ELSE IF msg[1] = "target" THEN IF msg[2] = "get" THEN "target" ELSE "unknown"
    ELSE IF msg[1] = "step" THEN IF msg[2] = "get" THEN "step" ELSE "unknown"
    ELSE IF msg[1] = "nprocs" THEN "nprocs"
    ELSE "raise"

\* the call the handler of req_socket makes on a signature store for msg
req_store_call(msg) ==
    IF req_answer(msg) = "ok" THEN "workflow_signatures.clear"
    ELSE IF req_answer(msg) = "placeholders" THEN "workflow_signatures.placeholders"
    ELSE IF req_answer(msg) = "target" THEN "target_signatures.get"
    ELSE IF req_answer(msg) = "step" THEN "step_signatures.get"
    ELSE sig_op

\* the message of req_socket is received and handled
ctl_req(msg) ==
    /\ cpc = "req"
    /\ IF req_answer(msg) = "raise"
       THEN /\ req_owed' = TRUE
            /\ creply' = "none"
            /\ ctl_except("Exception")
       ELSE IF req_answer(msg) = "unknown"
       THEN /\ req_owed' = TRUE
            /\ creply' = "none"
            /\ clog' = "Unknown request"
            /\ cpc' = next_stage({"monitor"}, socks)
       ELSE /\ req_owed' = FALSE
            /\ creply' = req_answer(msg)
            /\ clog' = "none"
            /\ cpc' = next_stage({"monitor"}, socks)
    /\ sig_op' = req_store_call(msg)
    /\ UNCHANGED <<socks, num_clients>>

\* the event of monitor_socket is received and counted
ctl_monitor(evt) ==
    /\ cpc = "monitor"
    /\ evt = "accepted" => num_clients < MaxClients
    /\ evt = "disconnected" => num_clients > 0
    /\ num_clients' = IF evt = "accepted" THEN num_clients + 1
                      ELSE IF evt = "disconnected" THEN num_clients - 1
                      ELSE num_clients
    /\ cpc' = "poll"
    /\ creply' = "none"
    /\ clog' = "none"
    /\ UNCHANGED <<socks, req_owed, sig_op>>

\* A call of the current stage (the poll, a recv, a method of a signature
\* store, a send) raises exc, or the interrupt arrives there. In the stage
\* of req_socket the request has been received or not; no reply was sent,
\* since the send is the last call of the stage.
ctl_raise(exc, received) ==
    /\ cpc \in {"poll", "push", "req", "monitor"}
    /\ received => cpc = "req"
    /\ req_owed' = IF received THEN TRUE ELSE req_owed
    /\ creply' = "none"
    /\ ctl_except(exc)
    /\ UNCHANGED <<socks, num_clients, sig_op>>

\* what is raised inside the loop: an Exception of some class, or the
\* KeyboardInterrupt
CtlExceptions == {"Exception", "KeyboardInterrupt"}

CtlPoll == \E found \in SUBSET Sockets : ctl_poll(found) /\ UNCHANGED <<mvars, wvars>>
CtlPush == \E tag \in PushTags : ctl_push(tag) /\ UNCHANGED <<mvars, wvars>>
CtlReq == \E msg \in ReqMsgs : ctl_req(msg) /\ UNCHANGED <<mvars, wvars>>
CtlMonitor == \E evt \in MonitorEvents : ctl_monitor(evt) /\ UNCHANGED <<mvars, wvars>>
CtlRaise == \E exc \in CtlExceptions, received \in BOOLEAN :
                ctl_raise(exc, received) /\ UNCHANGED <<mvars, wvars>>

CtlInit == ManagerInit(1) /\ WorkersInit /\ ControllerInit

CtlNext ==
    \/ CtlPoll
    \/ CtlPush
    \/ CtlReq
    \/ CtlMonitor
    \/ CtlRaise

CtlSpec == CtlInit /\ [][CtlNext]_vars

\* ---- the manager alone ------------------------------------------------------
Init ==
    /\ \E m \in 0..MaxWorkersCap : ManagerInit(m)
    /\ WorkersInit
    /\ ControllerInit

\* time passes
Tick ==
    /\ alive_age <= IdleLimit \/ avail_age <= IdleLimit
    /\ alive_age' = Older(alive_age)
    /\ avail_age' = Older(avail_age)
    /\ UNCHANGED <<max_workers, workers, num_workers, n_requested, n_processed,
                   substep_requests, step_requests, available_ports,
                   claimed_ports, mpc, reply, ret, raised>>
    /\ UNCHANGED wvars
    /\ UNCHANGED cvars

\* The worker processes of D have stopped being alive since the manager last
\* looked: nothing but the liveness check of check_workers reads a worker's
\* liveness, so their deaths take effect at the next call of it. A dead
\* process has no stack and no jobs; a readiness signal it has sent stays
\* on the backend socket.
WorkersStop(D) ==
    /\ wpc' = [w \in WorkerIds |-> IF w \in D THEN "killed" ELSE wpc[w]]
    /\ widx' = [w \in WorkerIds |-> IF w \in D THEN 0 ELSE widx[w]]
    /\ wnports' = [w \in WorkerIds |-> IF w \in D THEN 1 ELSE wnports[w]]
    /\ wjobs' = [w \in WorkerIds |-> IF w \in D THEN <<>> ELSE wjobs[w]]
    /\ UNCHANGED <<signal, sentinels>>

LiveWorkers == {w \in WorkerIds : is_alive(wpc[w])}

AddRequest == \E port \in Ports \cup {None} : add_request(port) /\ UNCHANGED cvars
WorkerAvailable == worker_available /\ UNCHANGED cvars
ProcessRequest == \E port \in Ports : process_request(port) /\ UNCHANGED <<wvars, cvars>>
CheckWorkers ==
    \E D \in SUBSET LiveWorkers :
        WorkersStop(D) /\ check_workers_begin /\ UNCHANGED cvars
CheckWorkersRecv == \E port \in Ports : check_workers_recv(port) /\ UNCHANGED <<wvars, cvars>>
CheckWorkersReturn == check_workers_return(FALSE) /\ UNCHANGED <<wvars, cvars>>
KillAll == kill_all_begin /\ UNCHANGED <<wvars, cvars>>
KillAllRecv == \E port \in Ports : kill_all_recv(port) /\ UNCHANGED <<wvars, cvars>>
KillAllReturn == kill_all_return(FALSE) /\ UNCHANGED <<wvars, cvars>>

Next ==
    \/ AddRequest
    \/ WorkerAvailable
    \/ ProcessRequest
    \/ CheckWorkers
    \/ CheckWorkersRecv
    \/ CheckWorkersReturn
    \/ KillAll
    \/ KillAllRecv
    \/ KillAllReturn
    \/ Tick

Spec == Init /\ [][Next]_vars

\* ---- the construction of the manager ------------------------------------------
\* WorkerManager.__init__ with max_workers = m before its last statement:
\* the fields are set and no worker has been started
ManagerFields(m) ==
    /\ max_workers = m
    /\ workers = <<>>
    /\ num_workers = 0
    /\ n_requested = 0
    /\ n_processed = 0
    /\ alive_age = 0
    /\ avail_age = 0
    /\ substep_requests = <<>>
    /\ step_requests = [q \in {} |-> None]
    /\ available_ports = {}
    /\ claimed_ports = {}
    /\ mpc = "new"
    /\ reply = NoReply
    /\ ret = None
    /\ raised = "none"

\* no worker process exists
NoWorkers ==
    /\ wpc = [w \in WorkerIds |-> "unborn"]
    /\ widx = [w \in WorkerIds |-> 0]
    /\ wnports = [w \in WorkerIds |-> 1]
    /\ wjobs = [w \in WorkerIds |-> <<>>]
    /\ signal = [w \in WorkerIds |-> None]
    /\ sentinels = [w \in WorkerIds |-> 0]

\* the last statement of WorkerManager.__init__: self.start()
Construct ==
    /\ mpc = "new"
    /\ start
    /\ mpc' = "idle"
    /\ UNCHANGED <<max_workers, n_requested, n_processed, alive_age, avail_age,
                   substep_requests, step_requests, available_ports,
                   claimed_ports, reply, ret, raised>>
    /\ UNCHANGED <<widx, wnports, wjobs, signal, sentinels>>
    /\ UNCHANGED cvars

BuildInit ==
    /\ \E m \in 0..MaxWorkersCap : ManagerFields(m)
    /\ NoWorkers
    /\ ControllerInit

\* no method of the manager is called before the manager is constructed
BuildNext ==
    \/ Construct
    \/ mpc # "new" /\ Next

BuildSpec == BuildInit /\ [][BuildNext]_vars

\* ---- SoS_Worker ---------------------------------------------------------------
\* the port of worker w's master socket of level idx
PortOf(w, idx) == (w - 1) * PortsPerWorker + idx + 1

\* self._master_ports[self._stack_idx]
master_port(w) == PortOf(w, widx[w])

\* the workers whose readiness signal waits on the backend socket
Signalling == {w \in WorkerIds : signal[w] # None}

\* a signal that always carries the port of level 0
process_job_send_first_port(w) ==
    /\ wpc[w] = "ready"
    /\ wpc' = [wpc EXCEPT ![w] = "wait"]
    /\ signal' = [signal EXCEPT ![w] = PortOf(w, 0)]
    /\ UNCHANGED <<widx, wnports, wjobs, sentinels>>

\* _process_job, first half: the worker signals its readiness with the port
\* of its current level and waits for the reply
process_job_send(w) ==
    /\ wpc[w] = "ready"
    /\ wpc' = [wpc EXCEPT ![w] = "wait"]
    /\ signal' = [signal EXCEPT ![w] = master_port(w)]
    /\ UNCHANGED <<widx, wnports, wjobs, sentinels>>

\* a return of _process_job whose False ends the worker at every level
process_job_returns_honoured(w, result) ==
    IF widx[w] = 0 \/ ~result
    THEN /\ wpc' = [wpc EXCEPT ![w] = IF result THEN "ready" ELSE "exited"]
         /\ widx' = [widx EXCEPT ![w] = 0]
    ELSE /\ wpc' = [wpc EXCEPT ![w] = "job"]
         /\ widx' = [widx EXCEPT ![w] = @ - 1]

\* a return of the nested _process_job that is not followed by pop_env
process_job_returns_unbalanced(w, result) ==
    IF widx[w] = 0
    THEN /\ wpc' = [wpc EXCEPT ![w] = IF result THEN "ready" ELSE "exited"]
         /\ UNCHANGED widx
    ELSE /\ wpc' = [wpc EXCEPT ![w] = "job"]
         /\ UNCHANGED widx

\* _process_job returns result at the worker's current level. At level 0 it
\* returns to the loop of run, which goes on while the result is True. At a
\* nested level it returns to the poll loop of the enclosing job, which
\* drops the result and calls pop_env.
process_job_returns(w, result) ==
    IF widx[w] = 0
    THEN /\ wpc' = [wpc EXCEPT ![w] = IF result THEN "ready" ELSE "exited"]
         /\ UNCHANGED widx
    ELSE /\ wpc' = [wpc EXCEPT ![w] = "job"]
         /\ widx' = [widx EXCEPT ![w] = @ - 1]

\* _process_job, second half: the worker has received work. None ends
\* _process_job with False, the empty payload and a substep (run at once)
\* with True; a step or workflow is started and runs up to its first poll.
process_job_recv(w, work) ==
    /\ signal' = [signal EXCEPT ![w] = None]
    /\ UNCHANGED wnports
    /\ IF wpc[w] # "wait"
       THEN UNCHANGED <<wpc, widx, wjobs, sentinels>>
       ELSE IF work.kind = "sentinel"
       THEN /\ sentinels' = [sentinels EXCEPT ![w] = @ + 1]
            /\ process_job_returns(w, FALSE)
            /\ UNCHANGED wjobs
       ELSE IF work.kind \in {"empty", "substep"}
       THEN /\ process_job_returns(w, TRUE)
            /\ UNCHANGED <<wjobs, sentinels>>
       ELSE /\ wjobs' = [wjobs EXCEPT ![w] = Append(@, work.msg)]
            /\ wpc' = [wpc EXCEPT ![w] = "job"]
            /\ UNCHANGED <<widx, sentinels>>

\* a poll loop that asks for other work without pushing a level
job_waits_same_level(w) ==
    /\ wpc[w] = "job"
    /\ widx[w] < MaxDepth
    /\ wpc' = [wpc EXCEPT ![w] = "ready"]
    /\ UNCHANGED <<widx, wnports, wjobs, signal, sentinels>>

\* a push_env that binds a new master port at every push
job_waits_always_binds(w) ==
    /\ wpc[w] = "job"
    /\ widx[w] < MaxDepth
    /\ widx' = [widx EXCEPT ![w] = @ + 1]
    /\ wnports' = [wnports EXCEPT ![w] = @ + 1]
    /\ wpc' = [wpc EXCEPT ![w] = "ready"]
    /\ UNCHANGED <<wjobs, signal, sentinels>>

\* the poll loop of _process_job: the poll fails, the worker pushes a level
\* (with a new master port when the level is new) and asks the manager for
\* other work
job_waits(w) ==
    /\ wpc[w] = "job"
    /\ widx[w] < MaxDepth
    /\ widx' = [widx EXCEPT ![w] = @ + 1]
    /\ wnports' = [wnports EXCEPT ![w] = IF @ > widx[w] + 1 THEN @ ELSE @ + 1]
    /\ wpc' = [wpc EXCEPT ![w] = "ready"]
    /\ UNCHANGED <<wjobs, signal, sentinels>>

\* the poll loop of _process_job: the poll succeeds and the runner of the
\* job is exhausted (StopIteration); _process_job returns True
job_done(w) ==
    /\ wpc[w] = "job"
    /\ wjobs' = [wjobs EXCEPT ![w] = SubSeq(@, 1, Len(@) - 1)]
    /\ process_job_returns(w, TRUE)
    /\ UNCHANGED <<wnports, signal, sentinels>>

\* ---- the manager with its workers ----------------------------------------------
\* The owner of the manager receives a readiness signal from the backend
\* socket and passes its port to process_request; it asks for a step or
\* workflow with the port that worker_available gave it.
SysAddRequest ==
    \E port \in claimed_ports \cup {None} : add_request(port) /\ UNCHANGED cvars
SysProcessRequest ==
    \E w \in Signalling :
        process_request(signal[w]) /\ process_job_recv(w, reply') /\ UNCHANGED cvars
\* the workers of SysSpec end by the sentinel only; Spec has the workers that
\* are killed
SysCheckWorkers == WorkersStop({}) /\ check_workers_begin /\ UNCHANGED cvars
SysCheckWorkersRecv ==
    \E w \in Signalling :
        check_workers_recv(signal[w]) /\ process_job_recv(w, reply') /\ UNCHANGED cvars
SysCheckWorkersReturn == check_workers_return(Signalling # {}) /\ UNCHANGED <<wvars, cvars>>
SysKillAllRecv ==
    \E w \in Signalling :
        kill_all_recv(signal[w]) /\ process_job_recv(w, reply') /\ UNCHANGED cvars
SysKillAllReturn == kill_all_return(Signalling # {}) /\ UNCHANGED <<wvars, cvars>>
WorkerSend == \E w \in WorkerIds : process_job_send(w) /\ UNCHANGED <<mvars, cvars>>
JobWaits == \E w \in WorkerIds : job_waits(w) /\ UNCHANGED <<mvars, cvars>>
JobDone == \E w \in WorkerIds : job_done(w) /\ UNCHANGED <<mvars, cvars>>

SysNext ==
    \/ SysAddRequest
    \/ WorkerAvailable
    \/ SysProcessRequest
    \/ SysCheckWorkers
    \/ SysCheckWorkersRecv
    \/ SysCheckWorkersReturn
    \/ KillAll
    \/ SysKillAllRecv
    \/ SysKillAllReturn
    \/ Tick
    \/ WorkerSend
    \/ JobWaits
    \/ JobDone

SysSpec == Init /\ [][SysNext]_vars

\* the worker that opened the port
OwnerOf(port) == ((port - 1) \div PortsPerWorker) + 1

\* the ports of all workers
SysPorts == 1..(MaxStarted * PortsPerWorker)

\* The manager with its workers, all of them running: a worker that can
\* signal does; the backend socket hands over every signal that waits on
\* it, so the call that receives answers each worker in turn; the poll of
\* a job's handle ends after 200 ms, ready or not; and a loop of the
\* manager whose poll finds no signal, now and again, returns.
SignalAnswered(w) ==
    /\ w \in Signalling
    /\ \/ process_request(signal[w])
       \/ check_workers_recv(signal[w])
       \/ kill_all_recv(signal[w])
    /\ process_job_recv(w, reply')
    /\ UNCHANGED cvars

FairSysSpec ==
    /\ SysSpec
    /\ \A w \in WorkerIds : WF_vars(process_job_send(w) /\ UNCHANGED <<mvars, cvars>>)
    /\ \A w \in WorkerIds : WF_vars(SignalAnswered(w))
    /\ \A w \in WorkerIds : WF_vars((job_waits(w) \/ job_done(w)) /\ UNCHANGED <<mvars, cvars>>)
    /\ SF_vars(SysCheckWorkersReturn)
    /\ SF_vars(SysKillAllReturn)

\* ---- failures in the workers -----------------------------------------------------
\* ProcessKilled is imported from sos.utils, where it is a subclass of
\* Exception: "except Exception" catches it.
ProcessKilled_is_Exception == TRUE

\* Exception, and ProcessKilled which signal_handler raises on SIGTERM
Exceptions == {"Exception", "ProcessKilled"}

\* The exception exc leaves _process_job, at whatever level, and reaches the
\* loop of run. run catches ProcessKilled (and KeyboardInterrupt): it breaks,
\* cleans up and the process ends. Any other exception ends the process
\* with no cleanup.
run_ends(w, exc) ==
    /\ wpc' = [wpc EXCEPT ![w] = IF exc = "ProcessKilled" THEN "exited" ELSE "killed"]
    /\ widx' = [widx EXCEPT ![w] = 0]
    /\ wnports' = [wnports EXCEPT ![w] = 1]
    /\ wjobs' = [wjobs EXCEPT ![w] = <<>>]
    /\ UNCHANGED <<signal, sentinels>>

\* run_workflow catches with "except Exception" what the workflow raises;
\* run_step has no handler for what the step raises
caught_in_job(kind, exc) ==
    kind = "workflow" /\ (exc = "Exception" \/ ProcessKilled_is_Exception)

\* The computation of worker w's current job raises exc inside its runner
\* (run_step or run_workflow, as work[0] chose; nothing else reads the kind
\* of a job). run_workflow goes on to send the exception on the master
\* socket; out of run_step the exception reaches run.
job_raises(w, kind, exc) ==
    /\ wpc[w] = "job"
    /\ IF caught_in_job(kind, exc)
       THEN /\ wpc' = [wpc EXCEPT ![w] = IF exc = "ProcessKilled" THEN "forward_killed"
                                                               ELSE "forward_error"]
            /\ UNCHANGED <<widx, wnports, wjobs, signal, sentinels>>
       ELSE run_ends(w, exc)

\* run_workflow has sent the exception on the master socket of the job: the
\* runner is exhausted and _process_job returns True
error_sent(w) ==
    /\ wpc[w] \in {"forward_error", "forward_killed"}
    /\ wjobs' = [wjobs EXCEPT ![w] = SubSeq(@, 1, Len(@) - 1)]
    /\ process_job_returns(w, TRUE)
    /\ UNCHANGED <<wnports, signal, sentinels>>

\* SIGTERM arrives at worker w and signal_handler raises ProcessKilled where
\* the worker is: in the code of _process_job or of a handler (in_runner
\* FALSE), or inside the runner of its current job
kill_signal(w, in_runner, kind) ==
    /\ is_alive(wpc[w])
    /\ IF in_runner
       THEN job_raises(w, kind, "ProcessKilled")
       ELSE run_ends(w, "ProcessKilled")

JobKinds == {"step", "workflow"}
JobRaises == \E w \in WorkerIds, kind \in JobKinds :
                 job_raises(w, kind, "Exception") /\ UNCHANGED <<mvars, cvars>>
ErrorSent == \E w \in WorkerIds : error_sent(w) /\ UNCHANGED <<mvars, cvars>>
KillSignal == \E w \in WorkerIds, in_runner \in BOOLEAN, kind \in JobKinds :
                  kill_signal(w, in_runner, kind) /\ UNCHANGED <<mvars, cvars>>

\* A pool of one worker (max_workers = 1) in which jobs raise exceptions and
\* the worker is sent SIGTERM. With one worker the loop of check_workers
\* makes no iteration.
FaultInit == ManagerInit(1) /\ WorkersInit /\ ControllerInit

FaultNext ==
    \/ SysAddRequest
    \/ WorkerAvailable
    \/ SysProcessRequest
    \/ SysCheckWorkers
    \/ SysCheckWorkersReturn
    \/ KillAll
    \/ SysKillAllRecv
    \/ SysKillAllReturn
    \/ Tick
    \/ WorkerSend
    \/ JobWaits
    \/ JobDone
    \/ JobRaises
    \/ ErrorSent
    \/ KillSignal

FaultSpec == FaultInit /\ [][FaultNext]_vars

\* ---- one worker, no failure, fair scheduling -----------------------------------
\* The pool of max_workers = 1 when no exception is raised and no signal
\* kills the worker.
NestedNext ==
    \/ SysAddRequest
    \/ WorkerAvailable
    \/ SysProcessRequest
    \/ SysCheckWorkers
    \/ SysCheckWorkersReturn
    \/ KillAll
    \/ SysKillAllRecv
    \/ SysKillAllReturn
    \/ Tick
    \/ WorkerSend
    \/ JobWaits
    \/ JobDone

\* the worker and the loops of the manager are scheduled as in FairSysSpec
FairNestedSpec ==
    /\ FaultInit
    /\ [][NestedNext]_vars
    /\ \A w \in WorkerIds : WF_vars(process_job_send(w) /\ UNCHANGED <<mvars, cvars>>)
    /\ \A w \in WorkerIds : WF_vars(SignalAnswered(w))
    /\ \A w \in WorkerIds : WF_vars((job_waits(w) \/ job_done(w)) /\ UNCHANGED <<mvars, cvars>>)
    /\ SF_vars(SysCheckWorkersReturn)
    /\ SF_vars(SysKillAllReturn)

\* ---- the manager with workers that die ------------------------------------------
\* A pool of max_workers = MaxWorkersCap whose worker processes can be
\* killed from outside. kill_all, the manager's last call, is left out: no
\* liveness check follows it.
DeathInit == ManagerInit(MaxWorkersCap) /\ WorkersInit /\ ControllerInit

DeathNext ==
    \/ SysAddRequest
    \/ WorkerAvailable
    \/ SysProcessRequest
    \/ CheckWorkers
    \/ SysCheckWorkersRecv
    \/ SysCheckWorkersReturn
    \/ Tick
    \/ WorkerSend
    \/ JobWaits
    \/ JobDone

DeathSpec == DeathInit /\ [][DeathNext]_vars

\* ---- claims about the manager ---------------------------------------------
\* The pool is active: kill_all has not been called.
PoolActive == mpc \notin {"kill_all", "stopped"}

\* the messages queued as substeps
QueuedSubsteps == {substep_requests[i] : i \in DOMAIN substep_requests}

C2_WorkerCountInRange ==
    PoolActive => 1 <= num_workers /\ num_workers <= max_workers

\* C2, amended: while the pool is active, 1 <= num_workers, and
\* num_workers <= max_workers when max_workers >= 1; a manager configured
\* with max_workers < 1 has exactly the one worker its constructor starts.
C2_WorkerCountInRangeOrOne ==
    PoolActive =>
        /\ 1 <= num_workers
        /\ num_workers <= (IF max_workers < 1 THEN 1 ELSE max_workers)

\* The pool is full, after a request has been processed and with no port
\* available: add_request and worker_available would start a worker if
\* they did not test the cap.
C2_Witness ==
    /\ PoolActive
    /\ max_workers > 1
    /\ num_workers = max_workers
    /\ n_processed > 0
    /\ available_ports = {}

\* the workers of the manager's list when a call is made
Tracked == {workers[i] : i \in DOMAIN workers}

\* the steps of a check_workers call
CheckWorkersStep == CheckWorkers \/ CheckWorkersRecv \/ CheckWorkersReturn

\* C3, as stated: a call of check_workers raises ProcessKilled if and only
\* if a worker of the manager's list is not alive when the call is made.
C3_RaisesIffTrackedDead ==
    [][CheckWorkers =>
          (raised' = "ProcessKilled" <=> \E w \in Tracked : ~is_alive(wpc'[w]))]_vars

\* C3, amended: a call of check_workers raises ProcessKilled if and only if
\* its liveness check is due (more than 5 seconds after the previous one)
\* and fewer workers of the list are alive than num_workers; it then has
\* removed the dead workers from the list and set off the next period.
C3_RaisesIffDueAndMissing ==
    [][CheckWorkers =>
          /\ raised' = "ProcessKilled" <=>
                /\ alive_age > IdleLimit
                /\ Cardinality({w \in Tracked : is_alive(wpc'[w])}) < num_workers
          /\ raised' = "ProcessKilled" =>
                /\ \A w \in Tracked : is_alive(wpc'[w]) <=> w \in {workers'[i] : i \in DOMAIN workers'}
                /\ alive_age' = 0
                /\ mpc' = "idle"]_vars

\* A call of check_workers has raised ProcessKilled.
C3_Witness == raised = "ProcessKilled" /\ Len(workers) < num_workers

\* the messages the manager holds
Stored == {step_requests[q] : q \in DOMAIN step_requests} \cup QueuedSubsteps

\* C4: a port has at most one pending step/workflow request. An
\* add_request(p, m2) made while m1 is pending for p replaces m1: m2 is the
\* one pending request of p, the manager holds m1 no more and no message
\* comes back once it is gone, and process_request(p) delivers the request
\* pending for p.
C4_PendingIsReplaced ==
    [][\A p \in Ports :
          /\ (add_request(p) /\ p \in DOMAIN step_requests) =>
                /\ DOMAIN step_requests' = DOMAIN step_requests
                /\ step_requests'[p] = n_requested + 1
                /\ step_requests[p] \notin {step_requests'[q] : q \in DOMAIN step_requests'}
                /\ step_requests[p] \notin {substep_requests'[i] : i \in DOMAIN substep_requests'}
          /\ {step_requests'[q] : q \in DOMAIN step_requests'} \cup
                {substep_requests'[i] : i \in DOMAIN substep_requests'}
                   \subseteq Stored \cup {n_requested + 1}
          /\ (process_request(p) /\ p \in DOMAIN step_requests) =>
                reply' = StepMsg(p, step_requests[p])]_vars

\* The first request was replaced by the second: nothing has been
\* processed, and the manager holds the second request only.
C4_Witness ==
    /\ n_requested = 2
    /\ n_processed = 0
    /\ Stored = {2}
    /\ substep_requests = <<>>

\* C5: a step/workflow request is delivered exactly once. process_request(p)
\* sends the request pending for p and the manager holds it no more; a
\* process_request(p) that follows the delivery, with no substep queued,
\* sends the empty payload.
C5_DeliveredOnce ==
    [][\A p \in Ports :
          /\ (process_request(p) /\ p \in DOMAIN step_requests) =>
                /\ reply' = StepMsg(p, step_requests[p])
                /\ p \notin DOMAIN step_requests'
                /\ step_requests[p] \notin {step_requests'[q] : q \in DOMAIN step_requests'}
          /\ (process_request(p) /\ reply.kind = "step" /\ reply.port = p
                 /\ substep_requests = <<>>) =>
                reply' = Empty(p)]_vars

\* The request of a claimed port has just been delivered on it.
C5_Witness ==
    /\ reply.kind = "step"
    /\ raised = "none"
    /\ reply.port \notin DOMAIN step_requests
    /\ substep_requests = <<>>

\* the port has no pending step/workflow request and is not claimed
FreeOf(p) == p \notin DOMAIN step_requests /\ p \notin claimed_ports

\* C6, as stated: process_request(p) on a port with no pending
\* step/workflow request and not claimed always makes p available and
\* replies with the empty payload.
C6_FreePortBecomesAvailable ==
    [][\A p \in Ports :
          (process_request(p) /\ FreeOf(p)) =>
                p \in available_ports' /\ reply' = Empty(p)]_vars

\* C6, amended: process_request(p) on a port with no pending step/workflow
\* request and not claimed, while no substep is queued, makes p available
\* and replies with the empty payload; called again in the resulting state
\* it gives the same reply and changes nothing in the manager.
C6_FreePortBecomesAvailableIdempotent ==
    [][\A p \in Ports :
          (process_request(p) /\ FreeOf(p) /\ substep_requests = <<>>) =>
                /\ p \in available_ports'
                /\ reply' = Empty(p)
                /\ raised' = "none"
                /\ available_ports' \ {p} = available_ports \ {p}
                /\ UNCHANGED <<max_workers, workers, num_workers, n_requested,
                               n_processed, alive_age, avail_age, substep_requests,
                               step_requests, claimed_ports, mpc>>
                /\ p \in available_ports => UNCHANGED available_ports]_vars

\* A free port has been made available with the empty payload.
C6_Witness ==
    /\ reply.kind = "empty"
    /\ reply.port \in available_ports
    /\ substep_requests = <<>>
    /\ mpc = "idle"

\* C7, as stated: with 2 workers and no dispatch for more than 5 seconds a
\* check_workers call reduces num_workers to 1 (it does not return with 2
\* workers), and no step of check_workers leaves fewer than 1 worker.
C7_IdleCallReclaims ==
    [][/\ (CheckWorkersReturn /\ max_workers = 2) => num_workers' = 1
       /\ CheckWorkersStep => num_workers' >= 1]_vars

\* C7, amended: with 2 workers and no dispatch for more than 5 seconds, a
\* check_workers call that receives a readiness signal on a port that is
\* not claimed reduces num_workers to 1, with the termination sentinel;
\* no other step of check_workers changes num_workers; the loop runs in
\* an idle period only, and no step of check_workers leaves fewer than 1
\* worker.
C7_IdleCallReclaimsOnSignal ==
    [][/\ \A p \in Ports :
             (check_workers_recv(p) /\ num_workers = 2 /\ p \notin claimed_ports) =>
                   num_workers' = 1 /\ reply' = Sentinel(p)
       /\ (CheckWorkersStep /\ ~\E p \in Ports \ claimed_ports : check_workers_recv(p)) =>
             num_workers' = num_workers
       /\ CheckWorkersStep => num_workers' >= 1
       /\ mpc' = "check_workers" => avail_age' >= IdleLimit]_vars

\* A check_workers call has retired a worker in its loop and one is left.
C7_Witness ==
    /\ mpc = "check_workers"
    /\ reply.kind = "sentinel"
    /\ num_workers = 1

\* C8: available_ports and claimed_ports are disjoint in every reachable
\* state of the manager.
C8_AvailableClaimedDisjoint == available_ports \cap claimed_ports = {}

\* One port is available while another one is claimed.
C8_Witness == available_ports # {} /\ claimed_ports # {}

\* C9, as stated: once worker_available has returned p (p is claimed), no
\* worker_available call returns p and no substep is delivered on p until
\* the request for p has been delivered and a later process_request(p)
\* has made p available again: none while p is claimed, and none right
\* after the delivery of the request on p.
C9_NoReassignUntilAvailable ==
    [][\A p \in Ports :
          /\ (worker_available /\ ret' = p) => p \in claimed_ports'
          /\ p \in claimed_ports =>
                /\ ~(worker_available /\ ret' = p)
                /\ ~(process_request(p) /\ reply'.kind = "substep")
          /\ (reply.kind = "step" /\ reply.port = p /\ raised = "none") =>
                /\ ~(worker_available /\ ret' = p)
                /\ ~(process_request(p) /\ reply'.kind = "substep")]_vars

\* C9, amended: once worker_available has returned p, p is claimed until
\* the request for p is delivered on p; while it is claimed no
\* worker_available call returns p and no substep is delivered on p; and
\* worker_available returns only a port that a process_request on it has
\* made available and that has not been claimed or given a substep since.
C9_NoReassignWhileClaimed ==
    [][\A p \in Ports :
          /\ (worker_available /\ ret' = p) =>
                p \in available_ports /\ p \in claimed_ports'
          /\ (p \in claimed_ports /\ p \notin claimed_ports') =>
                process_request(p) /\ reply'.kind = "step"
          /\ p \in claimed_ports =>
                /\ ~(worker_available /\ ret' = p)
                /\ ~(process_request(p) /\ reply'.kind = "substep")
          /\ (p \notin available_ports /\ p \in available_ports') =>
                process_request(p) /\ reply' = Empty(p)
          /\ ((worker_available /\ ret' = p) \/ (process_request(p) /\ reply'.kind = "substep")) =>
                p \notin available_ports']_vars

\* A claimed port has asked for work while a substep was queued, and has
\* been told to wait.
C9_Witness ==
    /\ reply.kind = "empty"
    /\ reply.port \in claimed_ports
    /\ substep_requests # <<>>

\* C14: process_request(p) on a claimed port p with no pending step/workflow
\* request replies with the empty payload and leaves available_ports,
\* claimed_ports, both request queues and the processed counter unchanged,
\* whether or not substep requests are queued.
C14_ClaimedPortKeepsWaiting ==
    [][\A p \in Ports :
          (process_request(p) /\ p \in claimed_ports /\ p \notin DOMAIN step_requests) =>
                /\ reply' = Empty(p)
                /\ raised' = "none"
                /\ UNCHANGED <<available_ports, claimed_ports, step_requests,
                               substep_requests, n_processed, n_requested>>]_vars

\* A claimed port without request has been answered while two substeps
\* were queued, and is still claimed.
C14_Witness ==
    /\ reply.kind = "empty"
    /\ reply.port \in claimed_ports
    /\ reply.port \notin DOMAIN step_requests
    /\ Len(substep_requests) = 2

\* C20: add_request increments n_requested by exactly 1 and starts one
\* more worker if and only if n_processed > 0, available_ports is empty and
\* num_workers < max_workers (otherwise it starts none); so it starts no
\* worker before the first request has been processed.
C20_AddRequestCountsAndStarts ==
    [][\A p \in Ports \cup {None} :
          add_request(p) =>
                /\ n_requested' = n_requested + 1
                /\ IF n_processed > 0 /\ available_ports = {} /\ num_workers < max_workers
                   THEN /\ num_workers' = num_workers + 1
                        /\ Len(workers') = Len(workers) + 1
                   ELSE /\ num_workers' = num_workers
                        /\ workers' = workers
                /\ n_processed = 0 => workers' = workers /\ wpc' = wpc]_vars

\* After a request was processed, a request has been added while no port
\* was available, and the second worker runs.
C20_Witness ==
    /\ n_processed > 0
    /\ n_requested = n_processed + 1
    /\ available_ports = {}
    /\ claimed_ports = {}
    /\ num_workers = 2
    /\ Len(workers) = 2
    /\ reply = NoReply
    /\ mpc = "idle"

\* C21: worker_available returns a port if and only if available_ports is
\* not empty. The port returned was in available_ports, and afterwards it
\* is in claimed_ports and not in available_ports, nothing else moves, and
\* no worker is started. With no available port it returns None, leaves
\* both sets alone, and starts exactly one worker if
\* num_workers < max_workers, none otherwise.
C21_WorkerAvailableClaimsOrStarts ==
    [][worker_available =>
          IF available_ports # {}
          THEN /\ ret' # None
               /\ ret' \in available_ports
               /\ available_ports' = available_ports \ {ret'}
               /\ claimed_ports' = claimed_ports \cup {ret'}
               /\ ret' \notin available_ports'
               /\ UNCHANGED <<workers, num_workers, wpc>>
          ELSE /\ ret' = None
               /\ UNCHANGED <<available_ports, claimed_ports>>
               /\ IF num_workers < max_workers
                  THEN /\ num_workers' = num_workers + 1
                       /\ Len(workers') = Len(workers) + 1
                       /\ Cardinality({w \in WorkerIds : wpc'[w] # wpc[w]}) = 1
                  ELSE UNCHANGED <<workers, num_workers, wpc>>]_vars

\* worker_available has returned one of two available ports: the port is
\* claimed, the other one is still available, and one worker runs.
C21_Witness ==
    /\ ret # None
    /\ ret \in claimed_ports
    /\ ret \notin available_ports
    /\ available_ports # {}
    /\ num_workers = 1
    /\ Len(workers) = 1

\* C23: process_request(p) with a step/workflow request pending for p
\* delivers that request, whatever substeps are queued, removes the pending
\* entry and no other, removes p from claimed_ports, increments n_processed
\* by 1, refreshes the last-dispatch time, and leaves substep_requests and
\* available_ports unchanged.
C23_PendingStepDeliveredFirst ==
    [][\A p \in Ports :
          (process_request(p) /\ p \in DOMAIN step_requests) =>
                /\ reply' = StepMsg(p, step_requests[p])
                /\ step_requests' = [q \in DOMAIN step_requests \ {p} |-> step_requests[q]]
                /\ claimed_ports' = claimed_ports \ {p}
                /\ n_processed' = n_processed + 1
                /\ avail_age' = 0
                /\ UNCHANGED <<substep_requests, available_ports>>]_vars

\* The request of a claimed port has been delivered, long after the
\* previous dispatch, while two substeps were queued: they still are, and
\* the port is claimed no more.
C23_Witness ==
    /\ reply.kind = "step"
    /\ raised = "none"
    /\ Len(substep_requests) = 2
    /\ reply.port \notin claimed_ports
    /\ reply.port \notin DOMAIN step_requests
    /\ avail_age = 0
    /\ alive_age > IdleLimit

\* C24: process_request(p) on a port p with a pending step/workflow request
\* that is not claimed completes without error: a request that has been
\* delivered was delivered by a call that raised nothing.
C24_UnclaimedDeliveryCompletes == reply.kind = "step" => raised = "none"

\* C25: process_request(p) on a port p with no pending step/workflow
\* request and not claimed, while a substep is queued, delivers exactly one
\* of the queued substeps, removes it (and nothing else) from the queue, and
\* increments n_processed by 1; afterwards p is in neither available_ports
\* nor claimed_ports, and no other port has moved.
C25_FreePortGetsOneSubstep ==
    [][\A p \in Ports :
          (process_request(p) /\ FreeOf(p) /\ substep_requests # <<>>) =>
                /\ reply'.kind = "substep"
                /\ reply'.port = p
                /\ reply'.msg \in QueuedSubsteps
                /\ Len(substep_requests') = Len(substep_requests) - 1
                /\ {substep_requests'[i] : i \in DOMAIN substep_requests'}
                       = QueuedSubsteps \ {reply'.msg}
                /\ n_processed' = n_processed + 1
                /\ p \notin available_ports'
                /\ p \notin claimed_ports'
                /\ available_ports' = available_ports \ {p}
                /\ UNCHANGED <<claimed_ports, step_requests>>]_vars

\* A substep has been delivered on a port while another port was
\* available and claimed ports existed; a substep is still queued.
C25_Witness ==
    /\ reply.kind = "substep"
    /\ reply.port \notin available_ports \cup claimed_ports
    /\ available_ports # {}
    /\ substep_requests # <<>>
    /\ raised = "none"

\* C27: a call of check_workers made less than IdleLimit seconds after a
\* dispatch returns (or raises) before its loop: it sends nothing and does
\* not change num_workers. The manager is in the loop of check_workers, where
\* the sentinel is sent and num_workers decremented, only when no dispatch
\* succeeded in the last IdleLimit seconds.
C27_NoReclaimAfterRecentDispatch ==
    /\ [][(check_workers_begin /\ avail_age < IdleLimit) =>
                /\ mpc' = "idle"
                /\ reply' = NoReply
                /\ UNCHANGED <<num_workers, available_ports, claimed_ports>>]_vars
    /\ [](mpc = "check_workers" => avail_age >= IdleLimit)

\* check_workers has made its liveness check and returned right after a
\* dispatch, with two workers of which one is on an available port.
C27_Witness ==
    /\ mpc = "idle"
    /\ avail_age = 0
    /\ alive_age = 0
    /\ n_processed > 0
    /\ num_workers = 2
    /\ Len(workers) = 2
    /\ available_ports # {}
    /\ reply = NoReply
    /\ raised = "none"

\* the requests the manager holds: pending step/workflow requests and
\* queued substeps
Backlog == Cardinality(DOMAIN step_requests) + Len(substep_requests)

\* the requests counted by n_requested that are neither held nor processed
Slack == n_requested - n_processed - Backlog

\* C34: n_requested and n_processed never decrease, and in every reachable
\* state n_processed + (pending step/workflow requests) + (queued substeps)
\* <= n_requested. The difference is 0 at the start and changes only when
\* add_request overwrites a pending request, where it grows by 1: so the
\* two sides are equal as long as no pending request was overwritten.
C34_CountersAccountForRequests ==
    /\ [](Slack >= 0)
    /\ [][n_requested' >= n_requested /\ n_processed' >= n_processed]_vars
    /\ [][\/ Slack' = Slack
          \/ /\ Slack' = Slack + 1
             /\ \E p \in DOMAIN step_requests : add_request(p)]_vars
    /\ [](n_requested = 0 => Slack = 0)

\* Three requests were made: one is processed, one is pending for a port
\* and one is a queued substep.
C34_Witness ==
    /\ n_requested = 3
    /\ n_processed = 1
    /\ Cardinality(DOMAIN step_requests) = 1
    /\ Len(substep_requests) = 1

\* C37: constructing the manager starts exactly one worker, whatever the
\* value of max_workers: right after construction num_workers = 1, both
\* request queues and both port sets are empty, and requested = processed
\* = 0.
C37_ConstructionStartsOneWorker ==
    [][mpc = "new" =>
          /\ num_workers' = 1
          /\ Cardinality({w \in WorkerIds : wpc'[w] # "unborn"}) = 1
          /\ workers' = <<1>>
          /\ substep_requests' = <<>>
          /\ DOMAIN step_requests' = {}
          /\ available_ports' = {}
          /\ claimed_ports' = {}
          /\ n_requested' = 0
          /\ n_processed' = 0
          /\ ManagerInit(max_workers)'
          /\ WorkersInit']_vars

\* A manager constructed with max_workers = 0 has one worker and nothing
\* else.
C37_Witness ==
    /\ max_workers = 0
    /\ mpc = "idle"
    /\ num_workers = 1
    /\ workers = <<1>>
    /\ wpc[1] = "ready"
    /\ n_requested = 0
    /\ available_ports \cup claimed_ports = {}
    /\ alive_age = 0

\* C39: add_request changes neither available_ports nor claimed_ports nor
\* processed, and worker_available changes neither step_requests nor
\* substep_requests nor the requested and processed counters.
C39_RequestsAndPortsSeparate ==
    [][/\ (\E port \in Ports \cup {None} : add_request(port)) =>
             UNCHANGED <<available_ports, claimed_ports, n_processed>>
       /\ worker_available =>
             UNCHANGED <<step_requests, substep_requests, n_requested,
                         n_processed>>]_vars

\* worker_available has returned a port while requests of both kinds are
\* queued, one of them added for a claimed port, and a request has been
\* processed.
C39_Witness ==
    /\ ret # None
    /\ ret \in claimed_ports
    /\ substep_requests # <<>>
    /\ DOMAIN step_requests \cap claimed_ports # {}
    /\ n_processed > 0

\* ---- claims about the controller ------------------------------------------
\* C22: the receive loop of the signature controller is fail-open. An
\* exception raised while a push, request or monitor message is handled (by
\* a call of the stage, or the RuntimeError for an unrecognized request) is
\* caught and logged, and the thread is back at the poll, which it can
\* take again; the loop ends only by a KeyboardInterrupt.
C22_ReceiveLoopFailOpen ==
    /\ [][\A received \in BOOLEAN :
            ctl_raise("Exception", received) =>
                cpc' = "poll" /\ clog' = "Signature handling warning"]_vars
    /\ [][\A msg \in ReqMsgs :
            (ctl_req(msg) /\ req_answer(msg) = "raise") =>
                cpc' = "poll" /\ clog' = "Signature handling warning"]_vars
    /\ [][(cpc # "stopped" /\ cpc' = "stopped") =>
            \E received \in BOOLEAN : ctl_raise("KeyboardInterrupt", received)]_vars
    /\ [](cpc = "poll" => ENABLED CtlPoll)

\* An exception was caught after a request had been received: the warning
\* is logged and the thread is at the poll again.
C22_Witness ==
    /\ cpc = "poll"
    /\ clog = "Signature handling warning"
    /\ req_owed
    /\ socks = Sockets

\* C38: every request received on the request socket gets one reply before
\* the next request is read, for every request tag and sub-command,
\* recognised or not: the handler of a request sends a reply and leaves no
\* reply owed.
C38_EveryRequestReplied ==
    [][\A msg \in ReqMsgs :
          ctl_req(msg) => creply' # "none" /\ ~req_owed']_vars

\* ---- claims about the workers ---------------------------------------------
\* C10: a worker that has received the termination sentinel has exited and
\* has no readiness signal under way, at whatever nesting level the
\* sentinel reached it.
C10_SentinelEndsWorker ==
    \A w \in WorkerIds :
        sentinels[w] > 0 => ~is_alive(wpc[w]) /\ signal[w] = None
\* C18: kill_all answers every readiness signal it receives with the
\* termination sentinel and decrements num_workers by one per signal. Its
\* loop does nothing else, so it makes at most num_workers iterations; at
\* num_workers = 0 it returns; it returns with num_workers = 0 or after a
\* poll that found no signal; and num_workers never becomes negative.
C18_KillAllSentinelPerSignal ==
    [][/\ SysKillAllRecv =>
             /\ reply'.kind = "sentinel"
             /\ reply'.port \in {signal[w] : w \in Signalling}
             /\ num_workers' = num_workers - 1
       /\ (mpc = "kill_all" /\ ~Tick /\ mvars' # mvars) =>
             SysKillAllRecv \/ SysKillAllReturn
       /\ (mpc = "kill_all" /\ num_workers = 0 /\ ~Tick /\ mvars' # mvars) =>
             mpc' = "stopped"
       /\ SysKillAllReturn =>
             /\ num_workers = 0 \/ Signalling = {}
             /\ num_workers' = num_workers
       /\ num_workers' >= 0]_vars

\* kill_all has returned after it sent the sentinel to every worker.
C18_Witness ==
    /\ mpc = "stopped"
    /\ num_workers = 0
    /\ \A w \in WorkerIds : wpc[w] # "unborn" => sentinels[w] > 0
\* C19: the termination sentinel does not interrupt a job in flight. A
\* worker that receives the sentinel at a nested level, while an outer
\* step/workflow job is suspended, goes back to the poll loop of that job
\* with its jobs as they were; a job leaves a worker only when it is
\* complete, and a worker leaves the poll loop of a job only to complete it
\* or to ask for other work at the next level.
C19_SentinelKeepsJobInFlight ==
    [][\A w \in WorkerIds :
          /\ (sentinels'[w] = sentinels[w] + 1 /\ widx[w] > 0) =>
                /\ wjobs[w] # <<>>
                /\ wjobs'[w] = wjobs[w]
                /\ wpc'[w] = "job"
                /\ widx'[w] = widx[w] - 1
          /\ wjobs'[w] # wjobs[w] =>
                \/ job_done(w)
                \/ wpc[w] = "wait" /\ reply'.kind = "step"
                       /\ wjobs'[w] = Append(wjobs[w], reply'.msg)
          /\ (wpc[w] = "job" /\ wpc'[w] # "job") => job_done(w) \/ job_waits(w)]_vars

\* A worker has received the sentinel and is in the poll loop of its job.
C19_Witness ==
    \E w \in WorkerIds :
        /\ sentinels[w] > 0
        /\ wpc[w] = "job"
        /\ wjobs[w] # <<>>
        /\ widx[w] = 0

\* the ports on which a worker executes delivered work it has not finished:
\* the job at position d of a worker's jobs was delivered at level d - 1
BusyPorts == UNION {{PortOf(w, d - 1) : d \in 1..Len(wjobs[w])} : w \in WorkerIds}

\* C26: a port on which a worker is executing delivered work that it has not
\* finished is in neither available_ports nor claimed_ports, and
\* worker_available never returns such a port.
C26_BusyPortNotOffered ==
    /\ [](BusyPorts \cap (available_ports \cup claimed_ports) = {})
    /\ [][worker_available => ret' \notin BusyPorts]_vars

\* Worker 1 executes a step delivered on its first port and a step delivered
\* on its nested port, and the manager has an available port: none of the
\* two.
C26_Witness ==
    /\ Len(wjobs[1]) = 2
    /\ wpc[1] = "job"
    /\ available_ports # {}
    /\ BusyPorts = {PortOf(1, 0), PortOf(1, 1)}

\* C28: in the loop of check_workers a worker that signals on a claimed
\* port is not retired: the signal is answered with the empty payload, the
\* port stays claimed (and not available), a request pending for it stays
\* where it is, num_workers is unchanged, and the worker has received no
\* sentinel and is alive.
C28_ClaimedPortNotReclaimed ==
    [][\A w \in WorkerIds :
          (/\ w \in Signalling
           /\ signal[w] \in claimed_ports
           /\ check_workers_recv(signal[w])
           /\ process_job_recv(w, reply')) =>
                /\ reply' = Empty(signal[w])
                /\ UNCHANGED <<claimed_ports, available_ports, step_requests,
                               substep_requests, num_workers, n_processed>>
                /\ sentinels'[w] = sentinels[w]
                /\ is_alive(wpc'[w])]_vars

\* In the loop of check_workers, with two workers, a signal on a claimed
\* port with a pending request has been answered with the empty payload.
C28_Witness ==
    /\ mpc = "check_workers"
    /\ reply.kind = "empty"
    /\ reply.port \in claimed_ports
    /\ reply.port \in DOMAIN step_requests
    /\ num_workers = 2
    /\ sentinels[OwnerOf(reply.port)] = 0

\* C29: the liveness check of check_workers is made only when the previous
\* one (or the construction) is more than IdleLimit seconds old, and then
\* the period starts again; and check_workers raises ProcessKilled only
\* when some worker has died without orderly shutdown: workers that ended
\* by the termination sentinel never make it raise.
C29_RetiredWorkerNotReported ==
    /\ [][check_workers_begin =>
            IF alive_age > IdleLimit
            THEN alive_age' = 0
            ELSE /\ UNCHANGED <<alive_age, workers>>
                 /\ raised' = "none"]_vars
    /\ [][raised' = "ProcessKilled" => \E w \in WorkerIds : wpc'[w] = "killed"]_vars

\* A worker retired by the sentinel has exited and a liveness check has
\* pruned it from the list without raising; the other worker is tracked.
C29_Witness ==
    /\ \E w \in WorkerIds : wpc[w] = "exited" /\ sentinels[w] = 1 /\ w \notin Tracked
    /\ alive_age = 0
    /\ raised = "none"
    /\ num_workers = 1
    /\ Len(workers) = 1
    /\ mpc = "idle"

\* C30: a worker that died without orderly shutdown is reported by the
\* first liveness check after its death: a due check that finds a tracked
\* worker killed raises ProcessKilled, whatever was retired before.
C30_DeadWorkerReported ==
    [][(/\ check_workers_begin
        /\ alive_age > IdleLimit
        /\ \E w \in Tracked : wpc'[w] = "killed") =>
              raised' = "ProcessKilled"]_vars

\* C31: the nesting level of a worker is balanced. A live worker that runs
\* a job is at the level at which the job was delivered, and one that asks
\* for work is one level above its suspended jobs. A nested round starts
\* by pushing one level over the same jobs; when it ends the worker is back
\* one level below, polling the job it left: the jobs suspended below the
\* current one are never replaced, and a round in which no job was
\* started leaves the jobs as they were.
C31_NestedRoundBalanced ==
    /\ [](\A w \in WorkerIds :
            is_alive(wpc[w]) =>
                widx[w] = IF wpc[w] = "job" THEN Len(wjobs[w]) - 1 ELSE Len(wjobs[w]))
    /\ [][\A w \in WorkerIds :
            job_waits(w) => widx'[w] = widx[w] + 1 /\ wjobs'[w] = wjobs[w]]_vars
    /\ [][\A w \in WorkerIds :
            \A i \in 1..Len(wjobs[w]) :
                i <= Len(wjobs'[w]) => wjobs'[w][i] = wjobs[w][i]]_vars
    /\ [][\A w \in WorkerIds :
            (wpc[w] = "wait" /\ widx[w] > 0 /\ wpc'[w] = "job" /\ widx'[w] < widx[w]) =>
                /\ widx'[w] = widx[w] - 1
                /\ wjobs'[w] = wjobs[w]
                /\ master_port(w)' = PortOf(w, Len(wjobs[w]) - 1)]_vars

\* Worker 1 runs the first request again at level 0 after a nested round
\* on its second port that brought no work.
C31_Witness ==
    /\ wpc[1] = "job"
    /\ widx[1] = 0
    /\ wnports[1] = 2
    /\ wjobs[1] = <<1>>
    /\ n_processed = 1
    /\ reply = Empty(PortOf(1, 1))

\* the last message on the backend socket was the empty payload, sent to
\* worker w, and w now sends its next readiness signal
SendsAfterEmpty(w) ==
    /\ process_job_send(w)
    /\ reply.kind = "empty"
    /\ OwnerOf(reply.port) = w

\* C32, as stated: every readiness signal carries the port of the worker's
\* current nesting depth; a worker sends a signal only when its previous
\* one has been answered; and after an empty-payload reply the worker
\* signals again on the same port.
C32_SignalsSamePortAfterEmpty ==
    /\ [](\A w \in WorkerIds : wpc[w] = "wait" => signal[w] = master_port(w))
    /\ [][\A w \in WorkerIds : process_job_send(w) => signal[w] = None]_vars
    /\ [][\A w \in WorkerIds : SendsAfterEmpty(w) => signal'[w] = reply.port]_vars

\* C32, amended: every readiness signal carries the port of the worker's
\* current nesting depth; a worker sends a signal only when its previous
\* one has been answered; and after an empty-payload reply the worker
\* signals again on the same port if that is its first port or if the job it
\* returned to is still unfinished, and else on the port of a lower depth,
\* the one above the jobs it still has.
C32_SignalsSameOrLowerPortAfterEmpty ==
    /\ [](\A w \in WorkerIds : wpc[w] = "wait" => signal[w] = master_port(w))
    /\ [][\A w \in WorkerIds : process_job_send(w) => signal[w] = None]_vars
    /\ [][\A w \in WorkerIds :
            SendsAfterEmpty(w) =>
                /\ signal'[w] = PortOf(w, Len(wjobs[w]))
                /\ signal'[w] <= reply.port
                /\ reply.port = PortOf(w, 0) => signal'[w] = reply.port
                /\ Len(wjobs[w]) = reply.port - PortOf(w, 0) => signal'[w] = reply.port]_vars

\* Worker 1 got the empty payload on its nested port, its job completed,
\* and its next signal is on its first port.
C32_Witness ==
    /\ wpc[1] = "wait"
    /\ signal[1] = PortOf(1, 0)
    /\ reply = Empty(PortOf(1, 1))
    /\ wjobs[1] = <<>>

\* the workers whose readiness signal the manager takes from the backend
\* socket in this step
Received == {w \in WorkerIds : signal[w] # None /\ signal'[w] = None}

\* C33: the manager sends exactly one reply for every readiness signal it
\* receives. A call of process_request, in each of its branches, and an
\* iteration of the loop of check_workers or of kill_all sends a message for
\* the port it was given; a step of the manager takes at most one signal
\* from the backend socket and answers that one; and a step that takes no
\* signal sends nothing.
C33_OneReplyPerSignal ==
    /\ [][\A p \in SysPorts :
            (process_request(p) \/ check_workers_recv(p) \/ kill_all_recv(p)) =>
                /\ reply'.kind \in {"step", "substep", "empty", "sentinel"}
                /\ reply'.port = p]_vars
    /\ [][/\ Cardinality(Received) <= 1
          /\ \A w \in Received :
                /\ reply'.kind \in {"step", "substep", "empty", "sentinel"}
                /\ reply'.port = signal[w]]_vars
    /\ [][Received = {} => (reply' = NoReply \/ reply' = reply)]_vars

\* kill_all has answered the signal of one worker with the sentinel while
\* the signal of the other worker waits for its own reply.
C33_Witness ==
    /\ mpc = "kill_all"
    /\ reply.kind = "sentinel"
    /\ signal[OwnerOf(reply.port)] = None
    /\ Signalling # {}
    /\ num_workers = 1

\* the master ports of worker w, of every level it has reached
PortsOf(w) == {PortOf(w, d) : d \in 0..(wnports[w] - 1)}

\* worker w was retired: it received the termination sentinel and exited
Retired(w) == wpc[w] = "exited" /\ sentinels[w] > 0

\* C35: after a worker has been retired, by idle reclamation in
\* check_workers or by kill_all, none of its ports, of any depth, is in
\* available_ports or claimed_ports, and worker_available never returns a
\* port of a retired worker.
C35_RetiredPortsForgotten ==
    /\ [](\A w \in WorkerIds :
            Retired(w) => PortsOf(w) \cap (available_ports \cup claimed_ports) = {})
    /\ [][(worker_available /\ ret' # None) => ~Retired(OwnerOf(ret'))]_vars

\* C36: num_workers is the number of workers that were started and have not
\* been sent the termination sentinel: a worker receives the sentinel at
\* most once, when kill_all has returned with num_workers = 0 every started
\* worker has received it, and every decrement of num_workers goes with one
\* worker that terminates.
C36_NumWorkersCountsLiveWorkers ==
    /\ [](num_workers = Cardinality({w \in WorkerIds :
                            wpc[w] # "unborn" /\ sentinels[w] = 0}))
    /\ [](\A w \in WorkerIds : sentinels[w] <= 1)
    /\ []((mpc = "stopped" /\ num_workers = 0) =>
            \A w \in WorkerIds : wpc[w] # "unborn" => sentinels[w] > 0)
    /\ [][num_workers' < num_workers =>
            \E w \in WorkerIds : is_alive(wpc[w]) /\ wpc'[w] = "exited"]_vars

\* C40: a worker's port stack only grows and stays aligned with its nesting
\* depth: in every state of a started worker 0 <= stack index < number of
\* ports; push_env binds a new port only when the new depth was never
\* reached before (it is the number of ports bound so far) and otherwise
\* moves to the port already bound for that depth; and no port is removed
\* or rebound.
C40_PortStackGrowsAligned ==
    /\ [](\A w \in WorkerIds :
            wpc[w] # "unborn" => 0 <= widx[w] /\ widx[w] < wnports[w])
    /\ [][\A w \in WorkerIds :
            /\ wnports'[w] # wnports[w] =>
                  /\ job_waits(w)
                  /\ wnports'[w] = wnports[w] + 1
                  /\ widx'[w] = wnports[w]
            /\ job_waits(w) =>
                  /\ widx'[w] = widx[w] + 1
                  /\ master_port(w)' = PortOf(w, widx[w] + 1)
                  /\ widx[w] + 1 < wnports[w] => wnports'[w] = wnports[w]
            /\ PortsOf(w) \subseteq PortsOf(w)']_vars

\* Worker 1 has pushed to its nested level a second time, after a round at
\* that level that was answered with the empty payload, and has the two
\* ports it had.
C40_Witness ==
    /\ wpc[1] = "ready"
    /\ widx[1] = 1
    /\ wnports[1] = 2
    /\ reply = Empty(PortOf(1, 1))
    /\ signal[1] = None

\* ---- claims about failures in the workers -------------------------------------
\* C15: an exception raised while a worker runs the computation of a step
\* or of a workflow is caught in the worker and forwarded on the master
\* socket of the job; the worker stays alive (and signals readiness again).
C15_JobExceptionForwarded ==
    [][\A w \in WorkerIds, kind \in JobKinds :
          (job_raises(w, kind, "Exception") /\ UNCHANGED mvars) =>
                wpc'[w] = "forward_error" /\ is_alive(wpc'[w])]_vars

C17_CheckWorkersTerminates == (mpc = "check_workers") ~> (mpc # "check_workers")
\* the number of queued substeps that were added before the queued substep m
Ahead(q, m) == Cardinality({i \in DOMAIN q : q[i] < m})

\* process_request is called with a port that is free for a substep
FreeServe == \E p \in Ports : FreeOf(p) /\ process_request(p)

\* C11: substep scheduling is starvation-free. Whatever is added in the
\* meantime, a queued substep m stays queued with the same substeps ahead
\* of it until process_request is called with a port that is not claimed
\* (and has no request of its own); each such call delivers m if nothing is
\* ahead of it, and else takes one substep away from those ahead of m. So
\* if such calls keep coming, every queued substep is eventually delivered.
C11_SubstepEventuallyDelivered ==
    /\ [][\A m \in QueuedSubsteps :
            IF FreeServe
            THEN IF Ahead(substep_requests, m) = 0
                 THEN reply'.kind = "substep" /\ reply'.msg = m
                 ELSE /\ m \in {substep_requests'[i] : i \in DOMAIN substep_requests'}
                      /\ Ahead(substep_requests', m) = Ahead(substep_requests, m) - 1
            ELSE /\ m \in {substep_requests'[i] : i \in DOMAIN substep_requests'}
                 /\ Ahead(substep_requests', m) = Ahead(substep_requests, m)]_vars
    /\ []<><<FreeServe>>_vars =>
            \A m \in 1..MaxRequests :
                (m \in QueuedSubsteps) ~> (reply.kind = "substep" /\ reply.msg = m)

\* The substep added second has been delivered on a free port after the
\* first one, while a third was queued behind it.
C11_Witness ==
    /\ reply.kind = "substep"
    /\ reply.msg = 2
    /\ n_processed = 2
    /\ substep_requests = <<3>>
\* C12: step/workflow scheduling is starvation-free. A request m recorded
\* for a claimed port p, of whatever level of its worker, is eventually
\* delivered on p, unless the worker that owns p is not alive, m is
\* overwritten, or the manager is in check_workers or kill_all or stopped.
C12_StepEventuallyDelivered ==
    \A p \in SysPorts, m \in 1..MaxRequests :
        (p \in claimed_ports /\ p \in DOMAIN step_requests /\ step_requests[p] = m)
          ~> \/ reply = StepMsg(p, m)
             \/ ~is_alive(wpc[OwnerOf(p)])
             \/ p \in DOMAIN step_requests /\ step_requests[p] # m
             \/ mpc # "idle"
\* the owner holds a claimed port for which it has not yet added the request
ClaimHeld == \E p \in claimed_ports : p \notin DOMAIN step_requests

\* worker w runs a job with d jobs suspended below it, so that the port on
\* which it signals when that job waits is PortOf(w, d + 1)
SuspendedAt(w, d) == wpc[w] = "job" /\ Len(wjobs[w]) = d + 1

====
